---- MODULE Spec2Model ----
(***************************************************************************)
(* Vec2<A, B> of starlark_map (src/starlark_map/src/vec2/mod.rs): an array *)
(* of pairs whose A-values and B-values live in two arrays inside a single *)
(* heap allocation laid out as [padding, A, ..., A, B, ..., B].            *)
(*                                                                         *)
(* The heap is modelled byte by byte.  A pointer is a pair (block, byte    *)
(* offset); an element occupies size_of bytes and is read back only when   *)
(* all of its bytes are found intact at the address that is read.          *)
(* The element types are those of test_layout_for: A = [u8; 3], B = u32.   *)
(* usize is UsizeBits wide.                                                *)
(***************************************************************************)
EXTENDS Integers, Sequences, FiniteSets, TLC

\* ------------------------------------------------------------------ bounds
UsizeBits == 10
MaxPush == 3
MaxInitCap == 2
MaxAdditional == 2
MaxSortOver == 1       \* lengths up to MAX_INSERTION + MaxSortOver are sorted
MaxSortCap == 40       \* the largest capacity a sorted container was created with
MaxBlocks == 10        \* sort_by is called while the allocator served fewer allocations
MaxGrowPush == 9       \* pushes onto a container that only grows
MaxGrowAdditional == 5 \* the largest request to reserve on such a container
MaxKey == 4            \* keys inserted into a SmallSet are 1..MaxKey
MaxInserts == 5        \* calls of SmallSet::insert on one set
MaxLayoutCap == 4      \* small capacities a layout is computed for
MaxElemSize == 8       \* the largest element size a layout is computed for

\* -------------------------------------------------- element types A and B
SizeOfA == 3
AlignOfA == 1
SizeOfB == 4
AlignOfB == 4

USIZE_MAX == 2^UsizeBits - 1
ISIZE_MAX == 2^(UsizeBits - 1) - 1

Max(x, y) == IF x >= y THEN x ELSE y

\* ------------------------------------------------------------ std::alloc::Layout
\* Layout::padding_needed_for: bytes to add to size to reach a multiple of align.
padding_needed_for(size, align) == (align - (size % align)) % align

\* Layout::from_size_align: the size, rounded up to align, must not exceed isize::MAX.
size_align_ok(size, align) == size <= ISIZE_MAX - (align - 1)

\* Layout::array::<T>(n): Err on overflow of n * size_of::<T>().
layout_array(elem_size, elem_align, n) ==
    IF elem_size * n <= USIZE_MAX /\ size_align_ok(elem_size * n, elem_align)
    THEN [ok |-> TRUE, size |-> elem_size * n, align |-> elem_align]
    ELSE [ok |-> FALSE, size |-> 0, align |-> elem_align]

\* Layout::extend placing next right behind self, without padding.
layout_extend_no_padding(a, b) ==
    LET new_align == Max(a.align, b.align)
        offset == a.size
        new_size == offset + b.size
    IN  IF offset <= USIZE_MAX /\ new_size <= USIZE_MAX /\ size_align_ok(new_size, new_align)
        THEN [ok |-> TRUE, size |-> new_size, align |-> new_align, offset_of_bbb |-> offset]
        ELSE [ok |-> FALSE, size |-> 0, align |-> new_align, offset_of_bbb |-> 0]

\* Layout::extend padding self to a multiple of the size of next, not of its alignment.
layout_extend_pad_to_size(a, b) ==
    LET new_align == Max(a.align, b.align)
        pad == IF b.size = 0 THEN 0 ELSE padding_needed_for(a.size, b.size)
        offset == a.size + pad
        new_size == offset + b.size
    IN  IF offset <= USIZE_MAX /\ new_size <= USIZE_MAX /\ size_align_ok(new_size, new_align)
        THEN [ok |-> TRUE, size |-> new_size, align |-> new_align, offset_of_bbb |-> offset]
        ELSE [ok |-> FALSE, size |-> 0, align |-> new_align, offset_of_bbb |-> 0]

\* Layout::extend: (layout of self followed by next, offset of next).
layout_extend(a, b) ==
    LET new_align == Max(a.align, b.align)
        pad == padding_needed_for(a.size, b.align)
        offset == a.size + pad
        new_size == offset + b.size
    IN  IF offset <= USIZE_MAX /\ new_size <= USIZE_MAX /\ size_align_ok(new_size, new_align)
        THEN [ok |-> TRUE, size |-> new_size, align |-> new_align, offset_of_bbb |-> offset]
        ELSE [ok |-> FALSE, size |-> 0, align |-> new_align, offset_of_bbb |-> 0]

\* Vec2Layout::new_checked(cap) for element types of the given sizes and alignments.
new_checked(cap, sa, aa, sb, ab) ==
    LET a == layout_array(sa, aa, cap)
        b == layout_array(sb, ab, cap)
    IN  IF a.ok /\ b.ok
        THEN layout_extend(a, b)
        ELSE [ok |-> FALSE, size |-> 0, align |-> Max(aa, ab), offset_of_bbb |-> 0]

\* Vec2Layout::<A, B>::new_checked(cap) for the element types of this model.
Vec2Layout(cap) == new_checked(cap, SizeOfA, AlignOfA, SizeOfB, AlignOfB)

\* ------------------------------------------------------------------ memory
\* An element is <<array, id>>: the A-value or the B-value of the id-th pair
\* passed to push; every push moves a fresh pair of values into the container.
\* A byte is <<array, id, k>>: byte k of that element.
Elem(t, id) == <<t, id>>
Garbage == <<"G", 0>>
UninitByte == <<"U", 0, 0>>
GarbageByte == <<"G", 0, 0>>
ByteOf(e, k) == <<e[1], e[2], k>>

NullPtr == [blk |-> 0, off |-> 0]
PtrAdd(p, bytes) == [blk |-> p.blk, off |-> p.off + bytes]

\* A byte offset of a live block.
InBlock(heap, blk, x) ==
    /\ blk \in 1..Len(heap)
    /\ heap[blk].live
    /\ x \in 0..(heap[blk].size - 1)

ByteAt(heap, blk, x) ==
    IF InBlock(heap, blk, x) THEN heap[blk].bytes[x + 1] ELSE GarbageByte

\* ptr::read / a dereference of p as an element of `size` bytes.
ReadElem(heap, p, size) ==
    LET whole(b0) ==
            IF /\ b0[1] \in {"A", "B"}
               /\ \A k \in 0..(size - 1) :
                      ByteAt(heap, p.blk, p.off + k) = <<b0[1], b0[2], k>>
            THEN <<b0[1], b0[2]>>
            ELSE Garbage
    IN  whole(ByteAt(heap, p.blk, p.off))

\* MaybeUninit::write / ptr::write of element e at p.
WriteElem(heap, p, size, e) ==
    IF p.blk \in 1..Len(heap)
    THEN [heap EXCEPT ![p.blk].bytes =
            [x \in DOMAIN @ |->
                IF x - 1 >= p.off /\ x - 1 < p.off + size /\ heap[p.blk].live
                THEN ByteOf(e, x - 1 - p.off) ELSE @[x]] \o <<>>]
    ELSE heap

\* ptr::copy / ptr::copy_nonoverlapping of n bytes (source read before any write).
CopyBytes(heap, src, dst, n) ==
    IF n > 0 /\ dst.blk \in 1..Len(heap)
    THEN [heap EXCEPT ![dst.blk].bytes =
            [x \in DOMAIN @ |->
                IF x - 1 >= dst.off /\ x - 1 < dst.off + n
                THEN ByteAt(heap, src.blk, src.off + (x - 1 - dst.off)) ELSE @[x]] \o <<>>]
    ELSE heap

\* The n bytes at p all lie inside one live block.
RangeOk(heap, p, n) ==
    n = 0 \/ (InBlock(heap, p.blk, p.off) /\ InBlock(heap, p.blk, p.off + n - 1))

\* alloc::alloc(layout): a fresh block of uninitialised bytes, appended to the heap.
alloc_block(heap, layout) ==
    Append(heap, [size |-> layout.size, align |-> layout.align, live |-> TRUE,
                  frees |-> <<>>,
                  bytes |-> [x \in 1..layout.size |-> UninitByte] \o <<>>])

\* alloc::dealloc(ptr, layout): the call is recorded with the block; the bytes are gone.
dealloc_block(heap, p, layout) ==
    IF p.blk \in 1..Len(heap)
    THEN [heap EXCEPT ![p.blk].live = FALSE,
                      ![p.blk].bytes = <<>>,
                      ![p.blk].frees = Append(@, [off |-> p.off, size |-> layout.size,
                                                  align |-> layout.align])]
    ELSE heap

\* A deallocation that the allocator contract allows.
FreeOk(heap, p, layout) ==
    /\ p.blk \in 1..Len(heap)
    /\ heap[p.blk].live
    /\ p.off = 0
    /\ layout.size = heap[p.blk].size
    /\ layout.align = heap[p.blk].align

\* ------------------------------------------------------------------ Vec2<A, B>
\* The operations below are functions of a world w: the container (w.vec), the
\* heap, the destructor calls made so far, whether an access left the bounds the
\* language allows (w.ub), whether a slot at or beyond len was read (w.stray),
\* whether the call panicked, and the value returned.

\* Vec2::new
new == [bbb_ptr |-> NullPtr, len |-> 0, cap |-> 0]

\* Vec2Layout::alloc: allocate and return the pointer to the B-array.
Vec2Layout_alloc(w, layout, cap) ==
    [w EXCEPT !.heap = alloc_block(w.heap, layout),
              !.ret = [bbb_ptr |-> [blk |-> Len(w.heap) + 1, off |-> layout.offset_of_bbb],
                       len |-> 0, cap |-> cap]]

\* Vec2::with_capacity; the new container is w.ret.  Vec2Layout::new panics on a layout error.
with_capacity(w, cap) ==
    LET alloc(layout) ==
            IF layout.ok
            THEN Vec2Layout_alloc(w, layout, cap)
            ELSE [w EXCEPT !.panic = TRUE]
    IN  IF cap = 0
        THEN [w EXCEPT !.ret = new]
        ELSE alloc(Vec2Layout(cap))

\* A read of the n slots from position lo on, of both arrays or of one.
Touch(w, lo, n) == [w EXCEPT !.stray = @ \/ (n > 0 /\ lo + n > w.vec.len)]

\* The A-array cap A-strides forward of the B-array instead of back.
aaa_offset_add(bbb_off, cap, sa) == bbb_off + cap * sa

\* bbb_ptr.cast::<A>().sub(cap) as a byte offset, for A of size sa.
aaa_offset(bbb_off, cap, sa) == bbb_off - cap * sa

\* Vec2::aaa_ptr: cap A-strides back from the B-array.
aaa_ptr(v) == [blk |-> v.bbb_ptr.blk, off |-> aaa_offset(v.bbb_ptr.off, v.cap, SizeOfA)]

\* Vec2::bbb_ptr
bbb_ptr(v) == v.bbb_ptr

\* Address of aaa[i] and bbb[i].
aaa_at(v, i) == PtrAdd(aaa_ptr(v), i * SizeOfA)
bbb_at(v, i) == PtrAdd(bbb_ptr(v), i * SizeOfB)

\* size_of::<(A, B)>(): both fields, padded to the larger alignment.
SizeOfPair ==
    LET al == Max(AlignOfA, AlignOfB)
    IN  SizeOfA + SizeOfB + padding_needed_for(SizeOfA + SizeOfB, al)

\* Vec2::MIN_NON_ZERO_CAP
MIN_NON_ZERO_CAP == IF SizeOfPair = 1 THEN 8 ELSE IF SizeOfPair <= 1024 THEN 4 ELSE 1

\* Vec2::dealloc_impl
dealloc_impl(w, data, cap) ==
    LET free(ptr, layout) ==
            [w EXCEPT !.heap = dealloc_block(w.heap, ptr, layout),
                      !.ub = @ \/ ~FreeOk(w.heap, ptr, layout)]
        Vec2Layout_dealloc(layout) ==
            IF layout.ok
            THEN free(PtrAdd(data, 0 - layout.offset_of_bbb), layout)
            ELSE [w EXCEPT !.panic = TRUE]
    IN  IF cap # 0
        THEN Vec2Layout_dealloc(Vec2Layout(cap))
        ELSE w

\* Vec2::dealloc
dealloc(w) == dealloc_impl(w, w.vec.bbb_ptr, w.vec.cap)

\* ptr::drop_in_place of n elements of the given array starting at p:
\* the destructor calls counted per element id.
DropSlice(heap, p, size, n, t, counts) ==
    [id \in DOMAIN counts |->
        counts[id] + Cardinality({i \in 0..(n - 1) :
            ReadElem(heap, PtrAdd(p, i * size), size) = <<t, id>>})]

\* Every one of the n slots at p holds an element of array t.
SliceInit(heap, p, size, n, t) ==
    \A i \in 0..(n - 1) : ReadElem(heap, PtrAdd(p, i * size), size)[1] = t

\* Vec2::drop_in_place: destruct aaa[0..len) and bbb[0..len).
drop_in_place(w) ==
    LET v == w.vec
    IN  [Touch(w, 0, v.len) EXCEPT !.dropsA = DropSlice(w.heap, aaa_ptr(v), SizeOfA, v.len, "A", @),
                  !.dropsB = DropSlice(w.heap, bbb_ptr(v), SizeOfB, v.len, "B", @),
                  !.ub = @ \/ ~SliceInit(w.heap, aaa_ptr(v), SizeOfA, v.len, "A")
                           \/ ~SliceInit(w.heap, bbb_ptr(v), SizeOfB, v.len, "B")]

\* reserve_slow computing the destination of the A-array from the capacity
\* of the old allocation instead of the new one.
reserve_slow_stale_cap(w, additional) ==
    LET v == w.vec
        adopt(w2, nw, new_cap) ==
            [w2 EXCEPT !.vec = [bbb_ptr |-> nw.bbb_ptr, len |-> v.len, cap |-> new_cap],
                       !.ret = <<>>]
        move(w1, nw, new_cap) ==
            adopt(dealloc([w1 EXCEPT
                      !.heap = CopyBytes(
                                   CopyBytes(w1.heap, aaa_ptr(v),
                                             PtrAdd(nw.bbb_ptr, 0 - v.cap * SizeOfA),
                                             v.len * SizeOfA),
                                   bbb_ptr(v), bbb_ptr(nw), v.len * SizeOfB)]),
                  nw, new_cap)
        replace(w1, new_cap) == IF w1.panic THEN w1 ELSE move(w1, w1.ret, new_cap)
        grow(new_cap) == replace(with_capacity(w, new_cap), new_cap)
        required_cap == v.len + additional
    IN  IF required_cap > USIZE_MAX
        THEN [w EXCEPT !.panic = TRUE]
        ELSE grow(Max(Max(required_cap, MIN_NON_ZERO_CAP), (v.cap * 2) % (USIZE_MAX + 1)))

\* reserve_slow leaving out self.dealloc().
reserve_slow_no_dealloc(w, additional) ==
    LET v == w.vec
        adopt(w2, nw, new_cap) ==
            [w2 EXCEPT !.vec = [bbb_ptr |-> nw.bbb_ptr, len |-> v.len, cap |-> new_cap],
                       !.ret = <<>>]
        move(w1, nw, new_cap) ==
            adopt([Touch(w1, 0, v.len) EXCEPT
                      !.heap = CopyBytes(
                                   CopyBytes(w1.heap, aaa_ptr(v), aaa_ptr(nw), v.len * SizeOfA),
                                   bbb_ptr(v), bbb_ptr(nw), v.len * SizeOfB)],
                  nw, new_cap)
        replace(w1, new_cap) == IF w1.panic THEN w1 ELSE move(w1, w1.ret, new_cap)
        grow(new_cap) == replace(with_capacity(w, new_cap), new_cap)
        required_cap == v.len + additional
    IN  IF required_cap > USIZE_MAX
        THEN [w EXCEPT !.panic = TRUE]
        ELSE grow(Max(Max(required_cap, MIN_NON_ZERO_CAP), (v.cap * 2) % (USIZE_MAX + 1)))

\* reserve_slow without the doubling: the new capacity is max(required, minimum).
reserve_slow_no_doubling(w, additional) ==
    LET v == w.vec
        adopt(w2, nw, new_cap) ==
            [w2 EXCEPT !.vec = [bbb_ptr |-> nw.bbb_ptr, len |-> v.len, cap |-> new_cap],
                       !.ret = <<>>]
        move(w1, nw, new_cap) ==
            adopt(dealloc([Touch(w1, 0, v.len) EXCEPT
                      !.heap = CopyBytes(
                                   CopyBytes(w1.heap, aaa_ptr(v), aaa_ptr(nw), v.len * SizeOfA),
                                   bbb_ptr(v), bbb_ptr(nw), v.len * SizeOfB)]),
                  nw, new_cap)
        replace(w1, new_cap) == IF w1.panic THEN w1 ELSE move(w1, w1.ret, new_cap)
        grow(new_cap) == replace(with_capacity(w, new_cap), new_cap)
        required_cap == v.len + additional
    IN  IF required_cap > USIZE_MAX
        THEN [w EXCEPT !.panic = TRUE]
        ELSE grow(Max(required_cap, MIN_NON_ZERO_CAP))

\* reserve_slow adding with wrap-around instead of checked_add.
reserve_slow_wrapping_add(w, additional) ==
    LET v == w.vec
        adopt(w2, nw, new_cap) ==
            [w2 EXCEPT !.vec = [bbb_ptr |-> nw.bbb_ptr, len |-> v.len, cap |-> new_cap],
                       !.ret = <<>>]
        move(w1, nw, new_cap) ==
            adopt(dealloc([Touch(w1, 0, v.len) EXCEPT
                      !.heap = CopyBytes(
                                   CopyBytes(w1.heap, aaa_ptr(v), aaa_ptr(nw), v.len * SizeOfA),
                                   bbb_ptr(v), bbb_ptr(nw), v.len * SizeOfB)]),
                  nw, new_cap)
        replace(w1, new_cap) == IF w1.panic THEN w1 ELSE move(w1, w1.ret, new_cap)
        grow(new_cap) == replace(with_capacity(w, new_cap), new_cap)
        required_cap == (v.len + additional) % (USIZE_MAX + 1)
    IN  grow(Max(Max(required_cap, MIN_NON_ZERO_CAP), (v.cap * 2) % (USIZE_MAX + 1)))

\* Vec2::reserve_slow
reserve_slow(w, additional) ==
    LET v == w.vec
        \* the copies, self.dealloc(), and the new bbb_ptr and cap
        adopt(w2, nw, new_cap) ==
            [w2 EXCEPT !.vec = [bbb_ptr |-> nw.bbb_ptr, len |-> v.len, cap |-> new_cap],
                       !.ret = <<>>]
        move(w1, nw, new_cap) ==
            adopt(dealloc([Touch(w1, 0, v.len) EXCEPT
                      !.heap = CopyBytes(
                                   CopyBytes(w1.heap, aaa_ptr(v), aaa_ptr(nw), v.len * SizeOfA),
                                   bbb_ptr(v), bbb_ptr(nw), v.len * SizeOfB),
                      !.ub = @ \/ ~RangeOk(w1.heap, aaa_ptr(v), v.len * SizeOfA)
                               \/ ~RangeOk(w1.heap, aaa_ptr(nw), v.len * SizeOfA)
                               \/ ~RangeOk(w1.heap, bbb_ptr(v), v.len * SizeOfB)
                               \/ ~RangeOk(w1.heap, bbb_ptr(nw), v.len * SizeOfB)]),
                  nw, new_cap)
        \* w1: the world after Self::with_capacity(new_cap)
        replace(w1, new_cap) == IF w1.panic THEN w1 ELSE move(w1, w1.ret, new_cap)
        grow(new_cap) == replace(with_capacity(w, new_cap), new_cap)
        required_cap == v.len + additional
    IN  IF required_cap > USIZE_MAX
        THEN [w EXCEPT !.panic = TRUE]
        ELSE grow(Max(Max(required_cap, MIN_NON_ZERO_CAP), (v.cap * 2) % (USIZE_MAX + 1)))

\* reserve growing already when the free room equals the request.
reserve_le(w, additional) ==
    IF w.vec.cap - w.vec.len <= additional
    THEN reserve_slow(w, additional)
    ELSE w

\* Vec2::reserve
reserve(w, additional) ==
    IF w.vec.cap - w.vec.len < additional
    THEN reserve_slow(w, additional)
    ELSE w

\* push incrementing len before it writes the pair.
push_len_first(w, a, b) ==
    LET write(w1, len) ==
            IF w1.panic
            THEN w1
            ELSE [w1 EXCEPT
                    !.heap = WriteElem(WriteElem(w1.heap, aaa_at(w1.vec, len), SizeOfA, a),
                                       bbb_at(w1.vec, len), SizeOfB, b),
                    !.vec.len = len]
        reserved(w1) == write(w1, w1.vec.len + 1)
    IN  reserved(reserve(w, 1))

\* Vec2::push
push(w, a, b) ==
    LET \* w1: the world after self.reserve(1)
        write(w1, len) ==
            IF w1.panic
            THEN w1
            ELSE [w1 EXCEPT
                    !.heap = WriteElem(WriteElem(w1.heap, aaa_at(w1.vec, len), SizeOfA, a),
                                       bbb_at(w1.vec, len), SizeOfB, b),
                    !.ub = @ \/ ~RangeOk(w1.heap, aaa_at(w1.vec, len), SizeOfA)
                             \/ ~RangeOk(w1.heap, bbb_at(w1.vec, len), SizeOfB),
                    !.vec.len = len + 1]
        reserved(w1) == write(w1, w1.vec.len)
    IN  reserved(reserve(w, 1))

\* Vec2::get_unchecked: the pair read at index.
get_unchecked(w, index) ==
    << ReadElem(w.heap, aaa_at(w.vec, index), SizeOfA),
       ReadElem(w.heap, bbb_at(w.vec, index), SizeOfB) >>

\* The pairs at positions [0, len), in order.
ItemsOfVec(w) == [i \in 1..w.vec.len |-> get_unchecked(w, i - 1)]

\* Vec2::get: Some(pair) is <<pair>>, None is <<>>.
get(w, index) ==
    IF index < w.vec.len
    THEN [Touch(w, index, 1) EXCEPT !.ret = << get_unchecked(w, index) >>]
    ELSE [w EXCEPT !.ret = <<>>]

\* Vec2::read
read(w, index) == get_unchecked(w, index)

\* remove shifting the A-array only.
remove_a_only(w, index) ==
    LET v == w.vec
        n == v.len - index - 1
        h1 == CopyBytes(w.heap, aaa_at(v, index + 1), aaa_at(v, index), n * SizeOfA)
    IN  IF ~(index < v.len)
        THEN [w EXCEPT !.panic = TRUE]
        ELSE [w EXCEPT !.heap = h1,
                       !.vec.len = v.len - 1,
                       !.ret = << read(w, index) >>]

\* remove without its assertion.
remove_unchecked(w, index) ==
    LET v == w.vec
        n == v.len - index - 1
        h1 == CopyBytes(w.heap, aaa_at(v, index + 1), aaa_at(v, index), n * SizeOfA)
        h2 == CopyBytes(h1, bbb_at(v, index + 1), bbb_at(v, index), n * SizeOfB)
    IN  [w EXCEPT !.heap = h2,
                  !.vec.len = (v.len - 1) % (USIZE_MAX + 1),
                  !.ret = << read(w, index) >>]

\* remove shifting down every slot of the allocation after index.
remove_shift_cap(w, index) ==
    LET v == w.vec
        n == v.cap - index - 1
    IN  IF ~(index < v.len)
        THEN [w EXCEPT !.panic = TRUE]
        ELSE [Touch(Touch(w, index, 1), index + 1, n) EXCEPT
                !.heap = CopyBytes(
                             CopyBytes(w.heap, aaa_at(v, index + 1), aaa_at(v, index),
                                       n * SizeOfA),
                             bbb_at(v, index + 1), bbb_at(v, index), n * SizeOfB),
                !.vec.len = v.len - 1,
                !.ret = << read(w, index) >>]

\* Vec2::remove
remove(w, index) ==
    LET v == w.vec
        n == v.len - index - 1
    IN  IF ~(index < v.len)
        THEN [w EXCEPT !.panic = TRUE]
        ELSE [Touch(Touch(w, index, 1), index + 1, n) EXCEPT
                !.heap = CopyBytes(
                             CopyBytes(w.heap, aaa_at(v, index + 1), aaa_at(v, index),
                                       n * SizeOfA),
                             bbb_at(v, index + 1), bbb_at(v, index), n * SizeOfB),
                !.vec.len = v.len - 1,
                !.ret = << read(w, index) >>]

\* clear resetting len without destructing the pairs.
clear_len_only(w) == [w EXCEPT !.vec.len = 0]

\* Vec2::clear
clear(w) == [drop_in_place(w) EXCEPT !.vec.len = 0]

\* pop reading the slot at len instead of the one at len - 1.
pop_reads_len(w) ==
    IF w.vec.len = 0
    THEN [w EXCEPT !.ret = <<>>]
    ELSE [w EXCEPT !.vec.len = w.vec.len - 1,
                   !.ret = << read(w, w.vec.len) >>]

\* Vec2::pop
pop(w) ==
    IF w.vec.len = 0
    THEN [w EXCEPT !.ret = <<>>]
    ELSE [Touch(w, w.vec.len - 1, 1) EXCEPT !.vec.len = w.vec.len - 1,
                   !.ret = << read(w, w.vec.len - 1) >>]

\* Drop freeing the allocation without destructing the pairs.
drop_dealloc_only(w) ==
    IF w.vec.cap # 0
    THEN dealloc(w)
    ELSE w

\* Drop for Vec2
drop(w) ==
    IF w.vec.cap # 0
    THEN dealloc(drop_in_place(w))
    ELSE w

\* Vec2::iter: the borrowing iterator (a slice iterator over aaa() and a B pointer).
iter(v) ==
    [aaa |-> aaa_ptr(v), aaa_end |-> PtrAdd(aaa_ptr(v), v.len * SizeOfA), bbb |-> bbb_ptr(v)]

\* into_iter placing the end of the B-array at cap instead of len.
into_iter_cap_end(v) ==
    [aaa_begin |-> aaa_ptr(v),
     bbb_begin |-> bbb_ptr(v),
     bbb_end |-> PtrAdd(bbb_ptr(v), v.cap * SizeOfB),
     bbb_ptr |-> v.bbb_ptr,
     cap |-> v.cap]

\* into_iter handing len to the iterator as the capacity to free with.
into_iter_len_cap(v) ==
    [aaa_begin |-> aaa_ptr(v),
     bbb_begin |-> bbb_ptr(v),
     bbb_end |-> PtrAdd(bbb_ptr(v), v.len * SizeOfB),
     bbb_ptr |-> v.bbb_ptr,
     cap |-> v.len]

\* Vec2::into_iter: the consuming iterator; the container is forgotten.
into_iter(v) ==
    [aaa_begin |-> aaa_ptr(v),
     bbb_begin |-> bbb_ptr(v),
     bbb_end |-> PtrAdd(bbb_ptr(v), v.len * SizeOfB),
     bbb_ptr |-> v.bbb_ptr,
     cap |-> v.cap]

\* ------------------------------------------------------------------ sorting
\* The values of the pairs pushed by test_sort_insertion_by, (1,2), (3,4),
\* (2,3), (3,2), continued periodically with repeated values.
ValA(id) == IF id <= 4 THEN <<1, 3, 2, 3>>[id] ELSE (id * 3) % 7
ValB(id) == IF id <= 4 THEN <<2, 4, 3, 2>>[id] ELSE id % 3

\* The comparators passed to the sorts, each a total preorder on pairs given by
\* a key: "desc" orders by the A-value, latest pushed first; "mod2" orders by
\* the parity of the B-value, so that pairs tie; "lex" is (xa, xb).cmp(&(ya, yb))
\* on the values of the pairs.
Comparators == {"desc", "mod2", "lex"}
Key(c, pair) ==
    IF c = "desc" THEN 0 - pair[1][2]
    ELSE IF c = "lex" THEN ValA(pair[1][2]) * 8 + ValB(pair[2][2])
    ELSE pair[2][2] % 2

\* compare(x, y)
Compare(c, x, y) ==
    IF Key(c, x) < Key(c, y) THEN "Less"
    ELSE IF Key(c, x) > Key(c, y) THEN "Greater" ELSE "Equal"

\* sorting::insertion::slice_swap_shift on the array at p: the element at b
\* moves to a, those in [a, b) move up by one.
slice_swap_shift(heap, p, size, a, b) ==
    WriteElem(CopyBytes(heap, PtrAdd(p, a * size), PtrAdd(p, (a + 1) * size), (b - a) * size),
              PtrAdd(p, a * size), size,
              ReadElem(heap, PtrAdd(p, b * size), size))

\* The swap_shift closure shifting the A-array only.
swap_shift_a_only(w, a, b) ==
    [w EXCEPT !.heap = slice_swap_shift(w.heap, aaa_ptr(w.vec), SizeOfA, a, b)]

\* The closure |vec2, a, b| of sort_insertion_by: the same shift on both arrays.
swap_shift(w, a, b) ==
    [w EXCEPT !.heap = slice_swap_shift(
                           slice_swap_shift(w.heap, aaa_ptr(w.vec), SizeOfA, a, b),
                           bbb_ptr(w.vec), SizeOfB, a, b)]

\* The less closure answering true for pairs that compare Equal as well.
less_or_equal(w, c, i, j) == Compare(c, get_unchecked(w, i), get_unchecked(w, j)) # "Greater"

\* The closure |vec2, i, j| of sort_insertion_by.
less(w, c, i, j) == Compare(c, get_unchecked(w, i), get_unchecked(w, j)) = "Less"

\* sorting::insertion: the position in [0, i] the element at i belongs to,
\* after every element of [0, i) that is not greater than it.
RECURSIVE find_insertion_point(_, _, _, _)
find_insertion_point(w, c, i, j) ==
    IF j > 0 /\ less(w, c, i, j - 1)
    THEN find_insertion_point(w, c, i, j - 1)
    ELSE j

\* sorting::insertion::insertion_sort, from element i on.
RECURSIVE insertion_sort(_, _, _, _)
insertion_sort(w, len, c, i) ==
    LET insert(j) == IF j # i THEN swap_shift(w, j, i) ELSE w
    IN  IF w.panic \/ i >= len
        THEN w
        ELSE insertion_sort(insert(find_insertion_point(w, c, i, i)), len, c, i + 1)

\* Vec2::sort_insertion_by
sort_insertion_by(w, c) == insertion_sort(Touch(w, 0, w.vec.len), w.vec.len, c, 1)

\* slice::sort_by of the standard library on a sequence of pairs: a stable sort.
RECURSIVE slice_sort_by(_, _)
slice_sort_by(entries, c) ==
    LET n == Len(entries)
        x == entries[n]
        place(front, k) == SubSeq(front, 1, k) \o << x >> \o SubSeq(front, k + 1, n - 1)
        insert(front) ==
            place(front, Cardinality({i \in 1..(n - 1) : Compare(c, x, front[i]) # "Less"}))
    IN  IF n <= 1
        THEN entries
        ELSE insert(slice_sort_by(SubSeq(entries, 1, n - 1), c))

\* for (a, b) in entries { self.push(a, b) }
RECURSIVE push_all(_, _, _)
push_all(w, entries, k) ==
    IF k > Len(entries) \/ w.panic
    THEN w
    ELSE push_all(push(w, entries[k][1], entries[k][2]), entries, k + 1)

\* Constant from rust stdlib.
MAX_INSERTION == 20

\* sort_by taking the rebuilding path at every length.
sort_by_always_rebuild(w, c) ==
    push_all(dealloc_impl([Touch(w, 0, w.vec.len) EXCEPT !.vec = new],
                          w.vec.bbb_ptr, w.vec.cap),
             slice_sort_by(ItemsOfVec(w), c), 1)

\* Vec2::sort_by
sort_by(w, c) ==
    IF w.vec.len <= MAX_INSERTION
    THEN sort_insertion_by(w, c)
    ELSE push_all(dealloc_impl([Touch(w, 0, w.vec.len) EXCEPT !.vec = new],
                               w.vec.bbb_ptr, w.vec.cap),
                  slice_sort_by(ItemsOfVec(w), c), 1)

\* ------------------------------------------------------------------ iterators
\* iter::Iter, collected: the pairs the borrowing iterator yields until its
\* slice iterator over aaa() is exhausted, the B pointer advancing in step.
Iter_collect(heap, i) ==
    [k \in 1..((i.aaa_end.off - i.aaa.off) \div SizeOfA) |->
        << ReadElem(heap, PtrAdd(i.aaa, (k - 1) * SizeOfA), SizeOfA),
           ReadElem(heap, PtrAdd(i.bbb, (k - 1) * SizeOfB), SizeOfB) >>]

\* Number of pairs the consuming iterator has not yielded yet.
IntoIter_len(i) == (i.bbb_end.off - i.bbb_begin.off) \div SizeOfB

\* iter::IntoIter::next: w.ret is <<pair>> or <<>>, w.it the advanced iterator.
IntoIter_next(w) ==
    LET i == w.it
    IN  IF i.bbb_begin = i.bbb_end
        THEN [w EXCEPT !.ret = <<>>]
        ELSE [w EXCEPT !.ret = << << ReadElem(w.heap, i.aaa_begin, SizeOfA),
                                     ReadElem(w.heap, i.bbb_begin, SizeOfB) >> >>,
                       !.it.aaa_begin = PtrAdd(i.aaa_begin, SizeOfA),
                       !.it.bbb_begin = PtrAdd(i.bbb_begin, SizeOfB)]

\* Drop for iter::IntoIter: destruct the pairs not yielded, then free the allocation.
IntoIter_drop(w) ==
    LET i == w.it
        drop_rest(n) ==
            [w EXCEPT !.dropsA = DropSlice(w.heap, i.aaa_begin, SizeOfA, n, "A", @),
                      !.dropsB = DropSlice(w.heap, i.bbb_begin, SizeOfB, n, "B", @),
                      !.ub = @ \/ ~SliceInit(w.heap, i.aaa_begin, SizeOfA, n, "A")
                               \/ ~SliceInit(w.heap, i.bbb_begin, SizeOfB, n, "B")]
    IN  dealloc_impl(drop_rest(IntoIter_len(i)), i.bbb_ptr, i.cap)

\* ------------------------------------------------------------------ SmallSet<T>
\* SmallMap<K, V> (collections/small_map.rs), an insertion-ordered map, as the
\* sequence of its <<key, value>> entries.
SmallMap_default == <<>>
SmallMap_with_capacity(n) == <<>>

\* SmallMap::insert: the value replaced at an existing key (<<old>>) or, for a
\* new key, <<>> and the entry appended.
SmallMap_insert(m, key, value) ==
    IF \E i \in 1..Len(m) : m[i][1] = key
    THEN [map |-> [i \in 1..Len(m) |-> IF m[i][1] = key THEN <<key, value>> ELSE m[i]],
          ret |-> << (CHOOSE e \in {m[i] : i \in 1..Len(m)} : e[1] = key)[2] >>]
    ELSE [map |-> Append(m, <<key, value>>), ret |-> <<>>]

SmallMap_keys(m) == [i \in 1..Len(m) |-> m[i][1]]
SmallMap_into_iter(m) == m
SmallMap_len(m) == Len(m)

\* The value () of a SmallMap<T, ()>.
Unit == "()"

\* SmallSet::new and SmallSet::with_capacity
SmallSet_new == SmallMap_default
SmallSet_with_capacity(n) == SmallMap_with_capacity(n)

\* insert answering is_some() instead of is_none().
SmallSet_insert_is_some(s, key) ==
    LET result(r) == [set |-> r.map, ret |-> r.ret # <<>>]
    IN  result(SmallMap_insert(s, key, Unit))

\* SmallSet::insert: self.0.insert(key, ()).is_none()
SmallSet_insert(s, key) ==
    LET result(r) == [set |-> r.map, ret |-> r.ret = <<>>]
    IN  result(SmallMap_insert(s, key, Unit))

\* SmallSet::iter, SmallSet::into_iter (both collected) and SmallSet::len
SmallSet_iter(s) == SmallMap_keys(s)
SmallSet_into_iter(s) ==
    [i \in 1..Len(SmallMap_into_iter(s)) |-> SmallMap_into_iter(s)[i][1]]
SmallSet_len(s) == SmallMap_len(s)

\* ------------------------------------------------------------------ state
VARIABLES
    stray,      \* some call so far read a slot at or beyond len
    set,        \* a SmallSet
    inserted,   \* the keys passed to SmallSet::insert so far, in call order
    vec,        \* the Vec2 struct: bbb_ptr, len, cap
    heap,       \* the allocator's blocks, in order of allocation
    it,         \* the IntoIter struct once into_iter() was called
    owner,      \* "vec": the container is live; "iter": it was consumed by
                \* into_iter(); "none": container or iterator was dropped
    dropsA,     \* per element id: destructor calls on its A-value
    dropsB,     \* per element id: destructor calls on its B-value
    handedA,    \* per element id: times its A-value was returned to the caller
    handedB,    \* per element id: times its B-value was returned to the caller
    ub,         \* some access so far was outside what the language allows
    pushed,     \* the number of pairs passed to push so far (the last one's id)
    op,         \* the last call: name, argument, returned value, panicked
    pre,        \* what the caller could observe just before the last call
    taken,      \* what get(i) returned for each i just before into_iter()
    yielded,    \* the pairs the consuming iterator has yielded so far
    cap0,       \* the capacity the container was created with
    onlyPush    \* every call since the creation was a push

vars == <<vec, heap, it, owner, dropsA, dropsB, handedA, handedB, ub, pushed, op, pre,
          taken, yielded, cap0, onlyPush, stray, set, inserted>>

Ids == 1..MaxPush
Indices == 0..MaxPush
Additionals == (0..MaxAdditional) \cup {USIZE_MAX}
InitCaps == 0..MaxInitCap

NoIter == [aaa_begin |-> NullPtr, bbb_begin |-> NullPtr, bbb_end |-> NullPtr,
           bbb_ptr |-> NullPtr, cap |-> 0]

\* The world the container's methods act on.
World == [vec |-> vec, heap |-> heap, it |-> it, dropsA |-> dropsA, dropsB |-> dropsB,
          ub |-> ub, stray |-> stray, panic |-> FALSE, ret |-> <<>>]

\* The pairs get(i) returns for i in [0, len), in order.
ItemsOf(w) == ItemsOfVec(w)
Items == ItemsOf(World)

\* Blocks that are allocated and not freed.
LiveBlocks(h) == {b \in 1..Len(h) : h[b].live}

\* What is observable before a call.
View == [len |-> vec.len, cap |-> vec.cap, bbb_ptr |-> vec.bbb_ptr, items |-> Items,
         heap |-> heap,
         dropsA |-> dropsA, dropsB |-> dropsB, handedA |-> handedA, handedB |-> handedB]

\* How often id occurs among the elements of array position k (1 = A, 2 = B) of the pairs.
Count(pairs, k, id) == Cardinality({i \in 1..Len(pairs) : pairs[i][k][2] = id})
Handed(counts, pairs, k) == [id \in Ids |-> counts[id] + Count(pairs, k, id)]

\* The container and heap after a call that ended in world w; a panic unwinds
\* out of the call and leaves what the call had done so far.
Commit(w) ==
    /\ vec' = w.vec
    /\ heap' = w.heap
    /\ it' = w.it
    /\ dropsA' = w.dropsA
    /\ dropsB' = w.dropsB
    /\ ub' = w.ub
    /\ stray' = w.stray
    /\ UNCHANGED <<set, inserted>>

\* The call returned w.ret (a sequence of zero or one pair) to the caller.
Return(name, arg, w) ==
    /\ op' = [name |-> name, arg |-> arg, ret |-> IF w.panic THEN <<>> ELSE w.ret,
              panic |-> w.panic]
    /\ pre' = View
    /\ cap0' = cap0
    /\ onlyPush' = (onlyPush /\ name = "push")
    /\ handedA' = IF w.panic THEN handedA ELSE Handed(handedA, w.ret, 1)
    /\ handedB' = IF w.panic THEN handedB ELSE Handed(handedB, w.ret, 2)

\* Vec2::new() or Vec2::with_capacity(c) has run.
Init ==
    \E c \in InitCaps :
        \E w \in {with_capacity([vec |-> new, heap |-> <<>>, it |-> NoIter,
                                 dropsA |-> [id \in Ids |-> 0],
                                 dropsB |-> [id \in Ids |-> 0], ub |-> FALSE, stray |-> FALSE,
                                 panic |-> FALSE, ret |-> <<>>], c)} :
            /\ vec = w.ret
            /\ heap = w.heap
            /\ it = NoIter
            /\ owner = "vec"
            /\ dropsA = w.dropsA
            /\ dropsB = w.dropsB
            /\ handedA = [id \in Ids |-> 0]
            /\ handedB = [id \in Ids |-> 0]
            /\ ub = FALSE
            /\ stray = FALSE
            /\ pushed = 0
            /\ op = [name |-> "with_capacity", arg |-> c, ret |-> <<>>, panic |-> FALSE]
            /\ cap0 = c
            /\ onlyPush = TRUE
            /\ pre = [len |-> 0, cap |-> 0, bbb_ptr |-> NullPtr, items |-> <<>>,
                      heap |-> <<>>,
                      dropsA |-> [id \in Ids |-> 0], dropsB |-> [id \in Ids |-> 0],
                      handedA |-> [id \in Ids |-> 0], handedB |-> [id \in Ids |-> 0]]
            /\ taken = <<>>
            /\ yielded = <<>>
            /\ set = SmallSet_new
            /\ inserted = <<>>

\* v.push(a, b) with a fresh pair, as long as fewer than limit pairs were pushed.
PushTo(limit) ==
    /\ owner = "vec"
    /\ pushed < limit
    /\ \E w \in {push(World, Elem("A", pushed + 1), Elem("B", pushed + 1))} :
           /\ Commit(w)
           /\ Return("push", pushed + 1, w)
           /\ pushed' = IF w.panic THEN pushed ELSE pushed + 1
    /\ UNCHANGED <<owner, taken, yielded>>

Push == PushTo(MaxPush)
PushMore == PushTo(MaxGrowPush)

Get(i) ==
    /\ owner = "vec"
    /\ i <= vec.len
    /\ \E w \in {get(World, i)} :
           /\ Commit(w)
           /\ op' = [name |-> "get", arg |-> i, ret |-> w.ret, panic |-> w.panic]
           /\ pre' = View
           /\ cap0' = cap0
           /\ onlyPush' = FALSE
    /\ UNCHANGED <<owner, pushed, taken, yielded, handedA, handedB>>

Remove(i) ==
    /\ owner = "vec"
    /\ i <= vec.len
    /\ \E w \in {remove(World, i)} :
           Commit(w) /\ Return("remove", i, w)
    /\ UNCHANGED <<owner, pushed, taken, yielded>>

Pop ==
    /\ owner = "vec"
    /\ \E w \in {pop(World)} :
           Commit(w) /\ Return("pop", 0, w)
    /\ UNCHANGED <<owner, pushed, taken, yielded>>

Clear ==
    /\ owner = "vec"
    /\ \E w \in {clear(World)} :
           Commit(w) /\ Return("clear", 0, w)
    /\ UNCHANGED <<owner, pushed, taken, yielded>>

Reserve(additional) ==
    /\ owner = "vec"
    /\ \E w \in {reserve(World, additional)} :
           Commit(w) /\ Return("reserve", additional, w)
    /\ UNCHANGED <<owner, pushed, taken, yielded>>

SortInsertionBy(c) ==
    /\ owner = "vec"
    /\ \E w \in {sort_insertion_by(World, c)} :
           Commit(w) /\ Return("sort_insertion_by", c, w)
    /\ UNCHANGED <<owner, pushed, taken, yielded>>

SortBy(c) ==
    /\ owner = "vec"
    /\ Len(heap) < MaxBlocks
    /\ \E w \in {sort_by(World, c)} :
           Commit(w) /\ Return("sort_by", c, w)
    /\ UNCHANGED <<owner, pushed, taken, yielded>>

\* The container goes out of scope.
Drop ==
    /\ owner = "vec"
    /\ \E w \in {drop(World)} :
           Commit(w) /\ Return("drop", 0, w)
    /\ owner' = "none"
    /\ UNCHANGED <<pushed, taken, yielded>>

\* for (a, b) in v.iter() { ... }: a borrowing iterator is obtained and run to its end.
Iter ==
    /\ owner = "vec"
    /\ Commit(World)
    /\ op' = [name |-> "iter", arg |-> 0, ret |-> Iter_collect(heap, iter(vec)), panic |-> FALSE]
    /\ pre' = View
    /\ cap0' = cap0
    /\ onlyPush' = FALSE
    /\ UNCHANGED <<owner, pushed, taken, yielded, handedA, handedB>>

\* v.into_iter(): the container is consumed.
IntoIter ==
    /\ owner = "vec"
    /\ Commit([World EXCEPT !.it = into_iter(vec)])
    /\ op' = [name |-> "into_iter", arg |-> 0, ret |-> <<>>, panic |-> FALSE]
    /\ pre' = View
    /\ cap0' = cap0
    /\ onlyPush' = FALSE
    /\ owner' = "iter"
    /\ taken' = Items
    /\ yielded' = <<>>
    /\ UNCHANGED <<pushed, handedA, handedB>>

IntoIterNext ==
    /\ owner = "iter"
    /\ \E w \in {IntoIter_next(World)} :
           /\ Commit(w)
           /\ Return("next", 0, w)
           /\ yielded' = yielded \o w.ret
    /\ UNCHANGED <<owner, pushed, taken>>

\* The consuming iterator goes out of scope, exhausted or not.
IntoIterDrop ==
    /\ owner = "iter"
    /\ \E w \in {IntoIter_drop(World)} :
           Commit(w) /\ Return("drop_iter", 0, w)
    /\ owner' = "none"
    /\ UNCHANGED <<pushed, taken, yielded>>

\* A container that is created, used through every operation but the sorts,
\* and dropped or consumed by into_iter().
Next ==
    \/ Push
    \/ \E i \in Indices : Get(i)
    \/ \E i \in Indices : Remove(i)
    \/ Pop
    \/ Clear
    \/ \E n \in Additionals : Reserve(n)
    \/ Drop
    \/ Iter
    \/ IntoIter
    \/ IntoIterNext
    \/ IntoIterDrop

Spec == Init /\ [][Next]_vars

\* A container that is created, changed by push, remove, pop, clear, reserve
\* and the sorts in any order, and dropped.  The sorts compare by parity of
\* the second component, which both reorders pairs and leaves ties.
NextOwned ==
    \/ Push
    \/ \E i \in Indices : Remove(i)
    \/ Pop
    \/ Clear
    \/ \E n \in Additionals : Reserve(n)
    \/ SortInsertionBy("mod2")
    \/ SortBy("mod2")
    \/ Drop

SpecOwned == Init /\ [][NextOwned]_vars

\* Lengths and capacities of the containers that are sorted.
SortLens == {4} \cup (MAX_INSERTION..(MAX_INSERTION + MaxSortOver))
SortCaps == {0, MaxSortCap}

\* with_capacity(c) followed by n pushes has run.
InitSort ==
    \E c \in SortCaps, n \in SortLens :
        \E w0 \in {with_capacity([vec |-> new, heap |-> <<>>, it |-> NoIter,
                                  dropsA |-> [id \in Ids |-> 0],
                                  dropsB |-> [id \in Ids |-> 0], ub |-> FALSE, stray |-> FALSE,
                                  panic |-> FALSE, ret |-> <<>>], c)} :
          \E w \in {push_all([w0 EXCEPT !.vec = w0.ret, !.ret = <<>>],
                              [id \in 1..n |-> <<Elem("A", id), Elem("B", id)>>], 1)} :
            /\ vec = w.vec
            /\ heap = w.heap
            /\ it = NoIter
            /\ owner = "vec"
            /\ dropsA = w.dropsA
            /\ dropsB = w.dropsB
            /\ handedA = [id \in Ids |-> 0]
            /\ handedB = [id \in Ids |-> 0]
            /\ ub = w.ub
            /\ stray = w.stray
            /\ pushed = n
            /\ op = [name |-> "push", arg |-> n, ret |-> <<>>, panic |-> FALSE]
            /\ cap0 = c
            /\ onlyPush = TRUE
            /\ pre = [len |-> 0, cap |-> 0, bbb_ptr |-> NullPtr, items |-> <<>>,
                      heap |-> <<>>,
                      dropsA |-> [id \in Ids |-> 0], dropsB |-> [id \in Ids |-> 0],
                      handedA |-> [id \in Ids |-> 0], handedB |-> [id \in Ids |-> 0]]
            /\ taken = <<>>
            /\ yielded = <<>>
            /\ set = SmallSet_new
            /\ inserted = <<>>

\* A container of up to MAX_INSERTION + MaxSortOver pairs that is sorted, again
\* and again, by either sort and any of the comparators.
NextSort ==
    \/ \E c \in Comparators : SortInsertionBy(c)
    \/ \E c \in Comparators : SortBy(c)

SpecSort == InitSort /\ [][NextSort]_vars

\* A container that is created and then only grows: pushes, and reserves of 1
\* and of MaxGrowAdditional.
GrowAdditionals == {1, MaxGrowAdditional}

NextGrow ==
    \/ PushMore
    \/ \E n \in GrowAdditionals : Reserve(n)

SpecGrow == Init /\ [][NextGrow]_vars

\* No Vec2 under observation: the variables of the container at rest.
NoVec2 ==
    /\ vec = new
    /\ heap = <<>>
    /\ it = NoIter
    /\ owner = "none"
    /\ dropsA = [id \in Ids |-> 0]
    /\ dropsB = [id \in Ids |-> 0]
    /\ handedA = [id \in Ids |-> 0]
    /\ handedB = [id \in Ids |-> 0]
    /\ ub = FALSE
    /\ stray = FALSE
    /\ pushed = 0
    /\ cap0 = 0
    /\ onlyPush = FALSE
    /\ taken = <<>>
    /\ yielded = <<>>

Keys == 1..MaxKey

\* SmallSet::new() or SmallSet::with_capacity(n) has run.
InitSet ==
    /\ NoVec2
    /\ set \in {SmallSet_new} \cup {SmallSet_with_capacity(n) : n \in InitCaps}
    /\ inserted = <<>>
    /\ op = [name |-> "new", arg |-> 0, ret |-> FALSE, panic |-> FALSE]
    /\ pre = [set |-> SmallSet_new]

\* set.insert(key)
Insert(key) ==
    /\ Len(inserted) < MaxInserts
    /\ \E r \in {SmallSet_insert(set, key)} :
           /\ set' = r.set
           /\ op' = [name |-> "insert", arg |-> key, ret |-> r.ret, panic |-> FALSE]
    /\ pre' = [set |-> set]
    /\ inserted' = Append(inserted, key)
    /\ UNCHANGED <<vec, heap, it, owner, dropsA, dropsB, handedA, handedB, ub, pushed,
                   taken, yielded, cap0, onlyPush, stray>>

NextSet == \E key \in Keys : Insert(key)

SpecSet == InitSet /\ [][NextSet]_vars

\* ---------------------------------------------- the layout, for any A and B
\* Element types as <<size_of, align_of>>: the size is a multiple of the
\* alignment, the alignment a power of two.
Aligns == {1, 2, 4, 8}
ElemTypes == {t \in (0..MaxElemSize) \X Aligns : t[1] % t[2] = 0}

\* Capacities: small ones, one whose arrays fit only for small elements, and
\* one whose byte count overflows usize.
LayoutCaps == (1..MaxLayoutCap) \cup {ISIZE_MAX \div MaxElemSize, USIZE_MAX}

\* Vec2Layout::<A, B>::new_checked(cap) is about to be called; op.arg is
\* <<cap, size_of A, align_of A, size_of B, align_of B>>.
InitLayout ==
    /\ NoVec2
    /\ set = SmallSet_new
    /\ inserted = <<>>
    /\ \E cap \in LayoutCaps, ta \in ElemTypes, tb \in ElemTypes :
           op = [name |-> "call", arg |-> <<cap, ta[1], ta[2], tb[1], tb[2]>>,
                 ret |-> <<>>, panic |-> FALSE]
    /\ pre = [set |-> SmallSet_new]

\* Vec2Layout::new_checked(cap)
NewChecked ==
    /\ op.name = "call"
    /\ op' = [op EXCEPT !.name = "new_checked",
                        !.ret = new_checked(op.arg[1], op.arg[2], op.arg[3], op.arg[4], op.arg[5])]
    /\ UNCHANGED <<vec, heap, it, owner, dropsA, dropsB, handedA, handedB, ub, pushed,
                   pre, taken, yielded, cap0, onlyPush, stray, set, inserted>>

\* Vec2Layout::new unwraps the layout, Vec2Layout::alloc allocates it and
\* returns the B-array pointer, Vec2::aaa_ptr derives the A-array pointer.
\* alloc::alloc of a layout of size 0 is undefined behaviour.
Alloc ==
    /\ op.name = "new_checked"
    /\ \E layout \in {op.ret} :
           /\ op' = [op EXCEPT
                        !.name = "alloc",
                        !.panic = ~layout.ok,
                        !.ret = IF layout.ok
                                THEN [layout |-> layout,
                                      bbb_ptr |-> [blk |-> Len(heap) + 1,
                                                   off |-> layout.offset_of_bbb],
                                      aaa_ptr |-> [blk |-> Len(heap) + 1,
                                                   off |-> aaa_offset(layout.offset_of_bbb,
                                                                      op.arg[1], op.arg[2])]]
                                ELSE <<>>]
           /\ heap' = IF layout.ok THEN alloc_block(heap, layout) ELSE heap
           /\ ub' = (layout.ok /\ layout.size = 0)
    /\ UNCHANGED <<vec, it, owner, dropsA, dropsB, handedA, handedB, pushed,
                   pre, taken, yielded, cap0, onlyPush, stray, set, inserted>>

NextLayout == NewChecked \/ Alloc

SpecLayout == InitLayout /\ [][NextLayout]_vars

\* ------------------------------------------------------------------ properties
\* The id-th pair passed to push.
Pair(id) == << Elem("A", id), Elem("B", id) >>

\* Per element id: counts plus one for each occurrence in array position k of pairs.
Plus(counts, pairs, k) == [id \in Ids |-> counts[id] + Count(pairs, k, id)]

\* C1: after n pushes and nothing else on a container made by new() or
\* with_capacity(c), len() is n and get(i) is the i-th pushed pair for every
\* i < n (and nothing beyond), whether or not the container had to grow.
C1_PushThenGet ==
    (owner = "vec" /\ onlyPush) =>
        /\ vec.len = pushed
        /\ \A i \in 0..(pushed - 1) : get(World, i).ret = << Pair(i + 1) >>
        /\ \A i \in pushed..MaxPush : get(World, i).ret = <<>>

\* C1 witness: all pushes done on a container created too small, so that it grew.
C1_Witness ==
    /\ onlyPush
    /\ pushed = MaxPush
    /\ cap0 \in 1..(MaxPush - 1)
    /\ Len(heap) >= 2
    /\ vec.len = MaxPush

\* C2: remove(i) with i < len returns the pair that was at i, shortens the
\* container by one, keeps the pairs before i, moves each later pair one
\* position down, and keeps the capacity.
C2_Remove ==
    (op.name = "remove" /\ op.arg < pre.len) =>
        /\ ~op.panic
        /\ op.ret = << pre.items[op.arg + 1] >>
        /\ vec.len = pre.len - 1
        /\ \A k \in 0..(op.arg - 1) : Items[k + 1] = pre.items[k + 1]
        /\ \A k \in (op.arg + 1)..(pre.len - 1) : Items[k] = pre.items[k + 1]
        /\ \A k \in 1..vec.len : \E id \in 1..pushed : Items[k] = Pair(id)
        /\ vec.cap = pre.cap

\* C2 witness: a pair with a predecessor and a successor was removed.
C2_Witness ==
    /\ op.name = "remove"
    /\ ~op.panic
    /\ op.arg = 1
    /\ pre.len = 3
    /\ op.ret = << Pair(2) >>

\* C3: pop() on an empty container returns nothing and changes nothing; on a
\* non-empty one it returns the last pair, shortens the container by one and
\* keeps the other pairs and the capacity.  push(a, b) appends (a, b), so a
\* pop() right after it returns (a, b) and restores the contents.
C3_Pop ==
    /\ (op.name = "pop" /\ pre.len = 0) =>
          op.ret = <<>> /\ ~op.panic /\ View = pre
    /\ (op.name = "pop" /\ pre.len > 0) =>
          /\ ~op.panic
          /\ op.ret = << pre.items[pre.len] >>
          /\ vec.len = pre.len - 1
          /\ Items = SubSeq(pre.items, 1, pre.len - 1)
          /\ vec.cap = pre.cap
    /\ (op.name = "push" /\ ~op.panic) =>
          /\ Items = Append(pre.items, Pair(op.arg))
          /\ pop(World).ret = << Pair(op.arg) >>
          /\ ItemsOf(pop(World)) = pre.items

\* C3 witness: a pop from a container of several pairs.
C3_Witness ==
    /\ op.name = "pop"
    /\ pre.len >= 2
    /\ op.ret = << Pair(pushed) >>

\* C4: clear() leaves len() = 0 and is_empty(), keeps capacity and allocation
\* as they were, and destructs each stored pair exactly once.
C4_Clear ==
    op.name = "clear" =>
        /\ ~op.panic
        /\ vec.len = 0
        /\ vec.cap = pre.cap
        /\ vec.bbb_ptr = pre.bbb_ptr
        /\ Len(heap) = Len(pre.heap)
        /\ \A b \in 1..Len(heap) :
              /\ heap[b].live = pre.heap[b].live
              /\ heap[b].size = pre.heap[b].size
              /\ heap[b].frees = pre.heap[b].frees
        /\ dropsA = Plus(pre.dropsA, pre.items, 1)
        /\ dropsB = Plus(pre.dropsB, pre.items, 2)
        /\ \A i \in 1..pre.len : dropsA[pre.items[i][1][2]] = 1 /\ dropsB[pre.items[i][2][2]] = 1
        /\ ~ub

\* C4 witness: a container with an allocation and several pairs was cleared.
C4_Witness ==
    /\ op.name = "clear"
    /\ pre.len >= 2
    /\ pre.cap > 0

\* C5: with_capacity(cap), cap > 0, followed by up to cap pushes and nothing
\* else never allocates or frees again and capacity() stays cap;
\* with_capacity(0) builds what new() builds.
C5_NoRealloc ==
    /\ (onlyPush /\ cap0 > 0 /\ pushed <= cap0) =>
          /\ vec.cap = cap0
          /\ Len(heap) = 1
          /\ heap[1].live
          /\ heap[1].frees = <<>>
          /\ heap[1].size = Vec2Layout(cap0).size
          /\ vec.bbb_ptr.blk = 1
    /\ (onlyPush /\ cap0 = 0 /\ pushed = 0) =>
          vec = new /\ heap = <<>>

\* C5 witness: a container created with the largest capacity, filled to it.
C5_Witness ==
    /\ onlyPush
    /\ cap0 = MaxInitCap
    /\ pushed = cap0
    /\ op.name = "push"

\* C6: a reserve(additional) that does not overflow leaves capacity() >=
\* len() + additional, keeps len() and every stored pair, reallocates at most
\* once, and not at all when capacity - len was already >= additional.
C6_Reserve ==
    /\ (op.name = "reserve" /\ ~op.panic) =>
          /\ vec.cap >= vec.len + op.arg
          /\ vec.len = pre.len
          /\ Items = pre.items
          /\ \A k \in 1..vec.len : \E id \in 1..pushed : Items[k] = Pair(id)
          /\ Len(heap) <= Len(pre.heap) + 1
          /\ Cardinality(LiveBlocks(heap)) <= 1
    /\ (op.name = "reserve" /\ pre.cap - pre.len >= op.arg) =>
          ~op.panic /\ View = pre

\* C6 witness: a reserve that had to reallocate a container holding pairs.
C6_Witness ==
    /\ op.name = "reserve"
    /\ ~op.panic
    /\ pre.len >= 2
    /\ Len(heap) = Len(pre.heap) + 1
    /\ vec.cap > pre.cap

\* C7: remove(i) with i >= len panics and modifies nothing; get(i) with
\* i >= len returns nothing, does not panic and modifies nothing.
C7_OutOfRange ==
    /\ (op.name = "remove" /\ op.arg >= pre.len) =>
          op.panic /\ op.ret = <<>> /\ View = pre
    /\ (op.name = "get" /\ op.arg >= pre.len) =>
          ~op.panic /\ op.ret = <<>> /\ View = pre
    /\ (op.name = "get" /\ op.arg < pre.len) =>
          ~op.panic /\ op.ret = << pre.items[op.arg + 1] >> /\ View = pre

\* C7 witness: remove was called past the end of a non-empty container.
C7_Witness ==
    /\ op.name = "remove"
    /\ op.panic
    /\ pre.len >= 1
    /\ op.arg >= pre.len

\* Sequence s is an initial part of sequence t.
IsPrefix(s, t) == Len(s) <= Len(t) /\ \A k \in 1..Len(s) : s[k] = t[k]

\* C8: the consuming iterator yields, in order, the pairs get(k) returned
\* before into_iter(), and exactly len of them when run to its end; iter()
\* yields the same sequence and leaves the container as it was.
C8_Iterators ==
    /\ IsPrefix(yielded, taken)
    /\ (op.name = "into_iter") => (taken = pre.items /\ Len(taken) = pre.len)
    /\ (op.name = "next" /\ op.ret # <<>>) => op.ret = << taken[Len(yielded)] >>
    /\ (op.name = "next" /\ op.ret = <<>>) => yielded = taken
    /\ (op.name = "iter") =>
          /\ op.ret = pre.items
          /\ Len(op.ret) = pre.len
          /\ View = pre
          /\ owner = "vec"

\* C8 witness: a consuming iterator over several pairs reported the end.
C8_Witness ==
    /\ op.name = "next"
    /\ op.ret = <<>>
    /\ Len(yielded) >= 2
    /\ vec.cap > vec.len

\* Every block of the heap is freed, by one call.
AllFreedOnce(h) == \A b \in 1..Len(h) : ~h[b].live /\ Len(h[b].frees) = 1

\* C9: every pushed value is disposed of at most once at any time, and
\* exactly once when the container has been dropped: handed back by remove or
\* pop, or destructed by clear or drop.  Drop destructs the len stored pairs
\* once each, then frees the allocation once; with cap = 0 it frees nothing.
C9_ExactlyOnce ==
    /\ \A id \in Ids : handedA[id] + dropsA[id] <= 1 /\ handedB[id] + dropsB[id] <= 1
    /\ op.name = "drop" =>
          /\ \A id \in 1..pushed : handedA[id] + dropsA[id] = 1 /\ handedB[id] + dropsB[id] = 1
          /\ \A id \in (pushed + 1)..MaxPush : handedA[id] + dropsA[id] = 0
                                               /\ handedB[id] + dropsB[id] = 0
          /\ dropsA = Plus(pre.dropsA, pre.items, 1)
          /\ dropsB = Plus(pre.dropsB, pre.items, 2)
          /\ handedA = pre.handedA /\ handedB = pre.handedB
          /\ AllFreedOnce(heap)
          /\ Len(heap) = Len(pre.heap)
          /\ (pre.cap = 0 => heap = pre.heap)
          /\ ~ub

\* C9 witness: a container that had grown was dropped with pairs stored,
\* after one pair was handed back and another destructed by clear.
C9_Witness ==
    /\ op.name = "drop"
    /\ pre.len >= 1
    /\ Len(heap) >= 2
    /\ \E id \in Ids : handedA[id] = 1
    /\ \E id \in Ids : dropsA[id] = 1 /\ pre.dropsA[id] = 1

\* C10: dropping a consuming iterator that has yielded k pairs destructs each
\* of the other len - k pairs once and none of the k yielded ones, and frees
\* the allocation once, with the layout of the capacity it was allocated for;
\* into_iter() itself frees and destructs nothing.
C10_IntoIterDrop ==
    /\ op.name = "into_iter" =>
          heap = pre.heap /\ dropsA = pre.dropsA /\ dropsB = pre.dropsB
    /\ op.name = "drop_iter" =>
          LET rest == SubSeq(taken, Len(yielded) + 1, Len(taken))
          IN  /\ dropsA = Plus(pre.dropsA, rest, 1)
              /\ dropsB = Plus(pre.dropsB, rest, 2)
              /\ \A k \in 1..Len(rest) :
                    /\ dropsA[rest[k][1][2]] = 1 /\ handedA[rest[k][1][2]] = 0
                    /\ dropsB[rest[k][2][2]] = 1 /\ handedB[rest[k][2][2]] = 0
              /\ \A k \in 1..Len(yielded) :
                    /\ dropsA[yielded[k][1][2]] = 0 /\ handedA[yielded[k][1][2]] = 1
                    /\ dropsB[yielded[k][2][2]] = 0 /\ handedB[yielded[k][2][2]] = 1
              /\ AllFreedOnce(heap)
              /\ Len(heap) = Len(pre.heap)
              /\ \A b \in 1..Len(heap) :
                    pre.heap[b].live =>
                        heap[b].frees = << [off |-> 0, size |-> Vec2Layout(pre.cap).size,
                                            align |-> Vec2Layout(pre.cap).align] >>
                        /\ heap[b].size = Vec2Layout(pre.cap).size
              /\ (pre.cap = 0 => heap = pre.heap)
              /\ ~ub

\* C10 witness: an iterator over three pairs was dropped after yielding one.
C10_Witness ==
    /\ op.name = "drop_iter"
    /\ Len(yielded) = 1
    /\ Len(taken) = 3
    /\ pre.cap > 3

\* Sequences s and t hold the same elements, each as often in one as in the other.
IsPermutation(s, t) ==
    /\ Len(s) = Len(t)
    /\ \A i \in 1..Len(s) :
          Cardinality({k \in 1..Len(s) : s[k] = s[i]}) =
          Cardinality({k \in 1..Len(t) : t[k] = s[i]})

\* C11: sort_by(cmp) and sort_insertion_by(cmp), on containers of at most and
\* of more than MAX_INSERTION pairs, keep len, leave a permutation of the
\* pairs stored before (A-values still with their B-values) and leave no pair
\* before one it compares Greater to; (1,2),(3,4),(2,3),(3,2) sorted
\* lexicographically is (1,2),(2,3),(3,2),(3,4).
C11_Sorted ==
    op.name \in {"sort_by", "sort_insertion_by"} =>
        /\ ~op.panic
        /\ vec.len = pre.len
        /\ IsPermutation(Items, pre.items)
        /\ \A k \in 1..vec.len : \E id \in 1..pushed : Items[k] = Pair(id)
        /\ \A i, j \in 1..vec.len :
              i < j => Compare(op.arg, Items[i], Items[j]) # "Greater"
        /\ (op.arg = "lex" /\ pre.items = << Pair(1), Pair(2), Pair(3), Pair(4) >>) =>
              Items = << Pair(1), Pair(3), Pair(4), Pair(2) >>
        /\ ~ub

\* C11 witness: sort_by reordered a container of more than MAX_INSERTION pairs.
C11_Witness ==
    /\ op.name = "sort_by"
    /\ pre.len > MAX_INSERTION
    /\ vec.len = pre.len
    /\ Items # pre.items

\* The distinct elements of h, in the order of their first occurrence.
RECURSIVE Firsts(_)
Firsts(h) ==
    LET add(f, k) == IF \E i \in 1..Len(f) : f[i] = k THEN f ELSE Append(f, k)
    IN  IF h = <<>>
        THEN <<>>
        ELSE add(Firsts(SubSeq(h, 1, Len(h) - 1)), h[Len(h)])

\* C12: SmallSet::insert(key) returns true exactly when key was not inserted
\* before and otherwise leaves the set as it was; len() is the number of
\* distinct keys inserted, and iter() and into_iter() yield each of them once,
\* in the order of first insertion.
C12_SetInsert ==
    /\ op.name = "insert" =>
          /\ op.ret = (\A i \in 1..(Len(inserted) - 1) : inserted[i] # op.arg)
          /\ (~op.ret => set = pre.set)
    /\ SmallSet_len(set) = Cardinality({inserted[i] : i \in 1..Len(inserted)})
    /\ SmallSet_iter(set) = Firsts(inserted)
    /\ SmallSet_into_iter(set) = Firsts(inserted)

\* C12 witness: a key was inserted again into a set that held it and others
\* inserted after it.
C12_Witness ==
    /\ op.name = "insert"
    /\ ~op.ret
    /\ SmallSet_len(set) >= 3
    /\ SmallSet_iter(set)[1] = op.arg

\* C13: while the container is live, len <= cap, every position below len
\* holds an A-value and the B-value pushed with it, and no call of push,
\* reserve, remove, pop, clear or the sorts has read a slot at or beyond len.
C13_LenCapInit ==
    owner = "vec" =>
        /\ vec.len <= vec.cap
        /\ \A k \in 1..vec.len : \E id \in 1..pushed : Items[k] = Pair(id)
        /\ SliceInit(heap, aaa_ptr(vec), SizeOfA, vec.len, "A")
        /\ SliceInit(heap, bbb_ptr(vec), SizeOfB, vec.len, "B")
        /\ ~stray
        /\ ~ub

\* C13 witness: a pair was removed from the middle of a container that has
\* grown and has room left.
C13_Witness ==
    /\ owner = "vec"
    /\ op.name = "remove"
    /\ ~op.panic
    /\ op.arg < vec.len
    /\ vec.len < vec.cap
    /\ Len(heap) >= 2

\* The holder of capacity cap and B-pointer ptr owns no block when cap = 0 and
\* otherwise the one live block, allocated with the layout for cap.
OwnsOne(cap, ptr) ==
    IF cap = 0
    THEN LiveBlocks(heap) = {}
    ELSE /\ LiveBlocks(heap) = {ptr.blk}
         /\ heap[ptr.blk].size = Vec2Layout(cap).size
         /\ heap[ptr.blk].align = Vec2Layout(cap).align
         /\ ptr.off = Vec2Layout(cap).offset_of_bbb

\* C14: the container, or the consuming iterator it was turned into, owns no
\* allocation when its cap is 0 and otherwise exactly one live allocation, made
\* with the layout for that cap; every deallocation passes the layout its
\* block was allocated with, no block is freed twice, and once container or
\* iterator is dropped no block is live.
C14_AllocPairing ==
    /\ owner = "vec" => OwnsOne(vec.cap, vec.bbb_ptr)
    /\ owner = "iter" => OwnsOne(it.cap, it.bbb_ptr)
    /\ owner = "none" => LiveBlocks(heap) = {}
    /\ \A b \in 1..Len(heap) :
          /\ Len(heap[b].frees) <= 1
          /\ heap[b].live <=> heap[b].frees = <<>>
          /\ ~heap[b].live =>
                heap[b].frees[1] = [off |-> 0, size |-> heap[b].size, align |-> heap[b].align]
    /\ ~ub

\* C14 witness: a container that had reallocated was consumed and its
\* iterator dropped, freeing the second block.
C14_Witness ==
    /\ owner = "none"
    /\ op.name = "drop_iter"
    /\ Len(heap) >= 2
    /\ pre.cap > 0
    /\ \A b \in 1..Len(heap) : Len(heap[b].frees) = 1

\* C15: no call of push, reserve, remove, pop, clear, sort_insertion_by or
\* sort_by leaves capacity() smaller than it was before the call.
C15_NeverShrinks ==
    (owner = "vec" /\ op.name \in {"push", "reserve", "remove", "pop", "clear",
                                    "sort_insertion_by", "sort_by"}) =>
        vec.cap >= pre.cap

\* The room the last call asked for: push is reserve(1).
Requested == IF op.name = "push" THEN 1 ELSE op.arg

\* C16: a push or reserve(additional) that finds cap - len < additional
\* leaves capacity max(len + additional, MIN_NON_ZERO_CAP, 2 * cap), which is
\* more than before; MIN_NON_ZERO_CAP is 4 for a pair of 2 to 1024 bytes; and
\* pushes alone onto a container made by new() give capacities 4, 8, 16, ...
C16_GrowthPolicy ==
    /\ (op.name \in {"push", "reserve"} /\ ~op.panic /\ pre.cap - pre.len < Requested) =>
          /\ vec.cap = Max(Max(pre.len + Requested, MIN_NON_ZERO_CAP), 2 * pre.cap)
          /\ vec.cap > pre.cap
    /\ (op.name \in {"push", "reserve"} /\ pre.cap - pre.len >= Requested) =>
          vec.cap = pre.cap
    /\ (SizeOfPair > 1 /\ SizeOfPair <= 1024) => MIN_NON_ZERO_CAP = 4
    /\ (onlyPush /\ cap0 = 0 /\ pushed > 0) =>
          /\ vec.cap \in {4, 8, 16, 32, 64}
          /\ vec.cap >= pushed
          /\ vec.cap = 4 \/ vec.cap \div 2 < pushed

\* C16 witness: pushes alone onto a new() container took it to capacity 16.
C16_Witness ==
    /\ onlyPush
    /\ cap0 = 0
    /\ op.name = "push"
    /\ pre.cap = 8
    /\ vec.cap = 16

\* The last push or reserve had to grow, and len + additional, 2 * cap or the
\* layout for the new capacity was not representable.
Overflows ==
    /\ pre.cap - pre.len < Requested
    /\ \/ pre.len + Requested > USIZE_MAX
       \/ 2 * pre.cap > USIZE_MAX
       \/ ~Vec2Layout(Max(Max(pre.len + Requested, MIN_NON_ZERO_CAP), 2 * pre.cap)).ok

\* C17: push and reserve panic exactly when len + additional, 2 * cap or the
\* layout of the new capacity overflows, and then len, cap, the allocation and
\* the stored pairs are as before the call; with_capacity of a capacity
\* without a layout panics and allocates nothing.  No capacity the container
\* ever has is large enough for 2 * cap to overflow.
C17_OverflowAborts ==
    /\ op.name \in {"push", "reserve"} =>
          /\ op.panic <=> Overflows
          /\ op.panic => (View = pre /\ op.ret = <<>>)
    /\ \A c \in {ISIZE_MAX, USIZE_MAX} :
          with_capacity(World, c).panic /\ with_capacity(World, c).heap = heap
    /\ owner = "vec" => 2 * vec.cap <= USIZE_MAX
    /\ ~ub

\* C17 witness: a reserve on an emptied container with an allocation failed
\* on the layout of the requested capacity.
C17_Witness ==
    /\ op.name = "reserve"
    /\ op.panic
    /\ pre.len = 0
    /\ pre.cap > 0
    /\ pre.len + op.arg <= USIZE_MAX
    /\ pushed > 0

\* x rounded up to a multiple of m.
RoundUp(x, m) == ((x + m - 1) \div m) * m

\* The arguments of the layout computation of this behaviour.
LCap == op.arg[1]
LSizeA == op.arg[2]
LAlignA == op.arg[3]
LSizeB == op.arg[4]
LAlignB == op.arg[5]

\* Both arrays and their sum, rounded up to the alignment, fit in isize.
LayoutFits ==
    /\ LCap * LSizeA <= ISIZE_MAX - (LAlignA - 1)
    /\ LCap * LSizeB <= ISIZE_MAX - (LAlignB - 1)
    /\ RoundUp(LCap * LSizeA, LAlignB) + LCap * LSizeB
           <= ISIZE_MAX - (Max(LAlignA, LAlignB) - 1)

\* C18: new_checked succeeds exactly when nothing overflows, and then returns
\* offset_of_bbb = cap * size_of(A) rounded up to align_of(B), size =
\* offset_of_bbb + cap * size_of(B), alignment = max of the two alignments;
\* hence the B-array fits in the allocation and starts aligned.  For A of 3
\* bytes align 1, B of 4 bytes align 4 and cap 1: offset 4, size 8, align 4.
C18_LayoutValues ==
    /\ op.name = "new_checked" =>
          /\ op.ret.ok <=> LayoutFits
          /\ op.ret.ok =>
                /\ op.ret.offset_of_bbb = RoundUp(LCap * LSizeA, LAlignB)
                /\ op.ret.size = op.ret.offset_of_bbb + LCap * LSizeB
                /\ op.ret.align = Max(LAlignA, LAlignB)
                /\ op.ret.offset_of_bbb % LAlignB = 0
                /\ op.ret.offset_of_bbb + LCap * LSizeB <= op.ret.size
    /\ (op.name = "new_checked" /\ op.arg = <<1, 3, 1, 4, 4>>) =>
          op.ret = [ok |-> TRUE, size |-> 8, align |-> 4, offset_of_bbb |-> 4]

\* C18 witness: the layout of test_layout_for has been computed.
C18_Witness ==
    /\ op.name = "new_checked"
    /\ op.arg = <<1, 3, 1, 4, 4>>
    /\ op.ret.ok
    /\ op.ret.size = 8

\* C19: the cap A-elements that start cap A-strides before the B-array lie
\* inside the allocation, start at a multiple of align_of(A) in a block
\* aligned for A, and end at or before the start of the B-array, which itself
\* ends inside the allocation.
C19_AArrayPlacement ==
    (op.name = "alloc" /\ ~op.panic) =>
        /\ op.ret.aaa_ptr.off >= 0
        /\ op.ret.aaa_ptr.off + LCap * LSizeA <= heap[op.ret.aaa_ptr.blk].size
        /\ op.ret.aaa_ptr.off % LAlignA = 0
        /\ heap[op.ret.aaa_ptr.blk].align % LAlignA = 0
        /\ op.ret.aaa_ptr.off + LCap * LSizeA <= op.ret.bbb_ptr.off
        /\ op.ret.bbb_ptr.off + LCap * LSizeB <= heap[op.ret.bbb_ptr.blk].size
        /\ op.ret.aaa_ptr.blk = op.ret.bbb_ptr.blk

\* C19 witness: an allocation whose A-array starts behind padding and whose
\* B-array is not empty.
C19_Witness ==
    /\ op.name = "alloc"
    /\ ~op.panic
    /\ op.ret.aaa_ptr.off > 0
    /\ LCap > 1
    /\ LSizeA > 0
    /\ LSizeB > 0

\* C20 as stated: offset_of_bbb is a multiple of size_of(A).
C20_OffsetMultipleOfSizeA ==
    (op.name = "new_checked" /\ op.ret.ok /\ LSizeA > 0) =>
        op.ret.offset_of_bbb % LSizeA = 0

\* C20: offset_of_bbb is a multiple of align_of(A), and exceeds the
\* cap * size_of(A) bytes of the A-array by less than align_of(B); it need not
\* be a multiple of size_of(A).
C20_OffsetMultipleOfAlignA ==
    (op.name = "new_checked" /\ op.ret.ok) =>
        /\ op.ret.offset_of_bbb % LAlignA = 0
        /\ op.ret.offset_of_bbb - LCap * LSizeA \in 0..(LAlignB - 1)

\* C20 witness: a computed offset that is not a multiple of size_of(A).
C20_Witness ==
    /\ op.name = "new_checked"
    /\ op.ret.ok
    /\ LSizeA > 0
    /\ op.ret.offset_of_bbb % LSizeA # 0
    /\ op.ret.offset_of_bbb % LAlignA = 0

\* The allocator's record of every block: what was allocated and what was freed.
Shape(h) == [b \in 1..Len(h) |->
                [size |-> h[b].size, align |-> h[b].align, live |-> h[b].live,
                 frees |-> h[b].frees]]

\* The last call was a sort that takes the insertion-sort path.
SmallSort ==
    \/ op.name = "sort_insertion_by"
    \/ op.name = "sort_by" /\ pre.len <= MAX_INSERTION

\* C21: sort_insertion_by at any length and sort_by on at most MAX_INSERTION
\* pairs allocate nothing and free nothing, keep the allocation, its pointer
\* and the capacity, run no destructor, and move A-values and B-values
\* together; sort_by on more than MAX_INSERTION pairs gives up the allocation
\* and pushes the pairs into a new one.
C21_SortInPlace ==
    /\ SmallSort =>
          /\ ~op.panic
          /\ Shape(heap) = Shape(pre.heap)
          /\ vec.bbb_ptr = pre.bbb_ptr
          /\ vec.cap = pre.cap
          /\ vec.len = pre.len
          /\ dropsA = pre.dropsA /\ dropsB = pre.dropsB
          /\ IsPermutation(Items, pre.items)
          /\ \A k \in 1..vec.len : \E id \in 1..pushed : Items[k] = Pair(id)
    /\ (op.name = "sort_by" /\ pre.len > MAX_INSERTION) =>
          /\ Len(heap) > Len(pre.heap)
          /\ ~heap[pre.bbb_ptr.blk].live
          /\ vec.bbb_ptr.blk > Len(pre.heap)
          /\ \A k \in 1..vec.len : \E id \in 1..pushed : Items[k] = Pair(id)

\* C21 witness: sort_by reordered exactly MAX_INSERTION pairs inside an
\* allocation with room to spare.
C21_Witness ==
    /\ op.name = "sort_by"
    /\ pre.len = MAX_INSERTION
    /\ Items # pre.items
    /\ vec.cap > vec.len
    /\ Len(heap) = Len(pre.heap)

\* The position of x in s.
IndexOf(s, x) == CHOOSE k \in 1..Len(s) : s[k] = x

\* C22: after sort_insertion_by, and after sort_by on at most MAX_INSERTION
\* pairs, two pairs that compare Equal stand in the order they stood in before
\* the sort.
C22_Stable ==
    SmallSort =>
        \A i, j \in 1..vec.len :
            (i < j /\ Compare(op.arg, Items[i], Items[j]) = "Equal") =>
                /\ \E k \in 1..Len(pre.items) : pre.items[k] = Items[i]
                /\ \E k \in 1..Len(pre.items) : pre.items[k] = Items[j]
                /\ IndexOf(pre.items, Items[i]) < IndexOf(pre.items, Items[j])

\* C22 witness: sort_insertion_by moved a pair in front of others and left
\* two pairs that compare Equal next to each other.
C22_Witness ==
    /\ op.name = "sort_insertion_by"
    /\ vec.len >= MAX_INSERTION
    /\ Items # pre.items
    /\ \E i \in 1..(vec.len - 1) : Compare(op.arg, Items[i], Items[i + 1]) = "Equal"
====
